---- MODULE Spec2Model ----
(***************************************************************************)
(* Tiered hybrid retrieval and ranking engine of the candidate matcher:    *)
(*   - ElasticsearchService.search_with_priority_layers (three lexical     *)
(*     passes with exclude-lists, merge, sort, truncate),                  *)
(*   - OptimizedHybridSearch._combine_results_with_tier_weights (fusion),  *)
(*   - OptimizedCandidateScorer (per-experience score, per-candidate       *)
(*     final score, threshold filter, ranking).                            *)
(*                                                                         *)
(* Numbers.  The code computes with floats; the model uses exact integers  *)
(* in fixed units so that every product of the code is an integer:         *)
(*   elasticsearch_score        plain units, multiples of 100              *)
(*   norm_cos_sim               1/100                                      *)
(*   combined_search_score      1/1000                                     *)
(*   fusion final_score         1/1000                                     *)
(*   experience combined_score  1/10000                                    *)
(*   score_threshold            1/10000                                    *)
(*   candidate final_score      1/100000                                   *)
(***************************************************************************)
EXTENDS Integers, Sequences, FiniteSets, TLC

VARIABLES
    pc,               \* position of the running operation
    limit,            \* the limit argument of the running operation
    exact_results,    \* search_with_priority_layers: result of pass 1
    relevant_results, \* search_with_priority_layers: result of pass 2
    similar_results,  \* search_with_priority_layers: result of pass 3
    issued,           \* the calls sent to the backends, one entry per call
    final_results,    \* search_with_priority_layers: returned list
    es_results,       \* fusion: the lexical matches handed in
    semantic_results, \* fusion: the rows of Database.search_experiences
    combined_results, \* fusion: returned list
    results,          \* scorer: the rows handed to score_and_rank_candidates
    score_threshold,  \* scorer: the score_threshold argument
    candidates,       \* scorer: returned list of CandidateResponse
    outcome,          \* "none" before the operation ends, then how it ended
    previous,         \* scorer: <<threshold, count>> of the call before this one
    text,             \* translator: the text argument of the last call
    translated,       \* translator: what the last call returned
    memory_cache,     \* translator: _memory_cache, text hash -> translation
    search_request,   \* request: the SearchRequest body
    query,            \* request: what process_query returned
    hash_seed,        \* process: the iteration order of a set of str in this process
    pool,             \* database: per connection of self.pool its state
    conn              \* database: the local conn of get_connection

retrieveVars == <<exact_results, relevant_results, similar_results, issued,
                  final_results>>

fuseVars == <<es_results, semantic_results, combined_results>>

scoreVars == <<results, score_threshold, candidates, outcome, previous>>

translateVars == <<text, translated, memory_cache>>

requestVars == <<search_request, query>>

processVars == <<hash_seed, pool, conn>>

vars == <<pc, limit, retrieveVars, fuseVars, scoreVars, translateVars,
          requestVars, processVars>>

\* no interpreter state is looked at and no connection pool is in use
Unstarted ==
    /\ hash_seed = <<>>
    /\ pool = <<>>
    /\ conn = <<>>

\* no translator call and no request has been made
Idle ==
    /\ text = <<>>
    /\ translated = <<>>
    /\ memory_cache = <<>>
    /\ search_request = <<>>
    /\ query = <<>>
    /\ Unstarted

(***************************************************************************)
(* Bounds of the model.                                                    *)
(***************************************************************************)
MaxDocs == 3          \* experience documents in the index
MaxLimit == 3         \* largest limit argument tried

DocIds == 1..MaxDocs
EsScores == {0, 100, 100000}   \* retrieval scores the index may report

(***************************************************************************)
(* Generic helpers.                                                        *)
(***************************************************************************)
Min(a, b) == IF a <= b THEN a ELSE b

Max(a, b) == IF a >= b THEN a ELSE b

Range(s) == {s[i] : i \in 1..Len(s)}

\* s[:n] of Python for n >= 0
Take(s, n) == SubSeq(s, 1, Min(n, Len(s)))

\* lexicographic > on pairs, the order of Python tuples
PairGreater(x, y) == x[1] > y[1] \/ (x[1] = y[1] /\ x[2] > y[2])

\* list.sort(key=..., reverse=True): descending and stable.  k[i] is the
\* key (a pair) of s[i]; an element goes after every element with a greater
\* key and after the earlier elements with an equal key.
SortDescStable(s, k) ==
    LET n == Len(s)
        rank(i) == 1 + Cardinality({j \in 1..n :
                         PairGreater(k[j], k[i]) \/ (k[j] = k[i] /\ j < i)})
    IN [p \in 1..n |-> s[CHOOSE i \in 1..n : rank(i) = p]]

(***************************************************************************)
(* The search index as the retriever sees it.  A pass sends a bool query   *)
(* with a size and a must_not on the ids already claimed; the index        *)
(* answers with hits sorted by _score descending.  The hits are any list   *)
(* of distinct documents that are not excluded, no longer than size.       *)
(***************************************************************************)
Doc == [id : DocIds, elasticsearch_score : EsScores]

ScoreSorted(h) ==
    \A i \in 1..Len(h) - 1 : h[i].elasticsearch_score >= h[i+1].elasticsearch_score

DistinctIds(h) == \A i, j \in 1..Len(h) : i # j => h[i].id # h[j].id

HitLists(n) == UNION {[1..m -> Doc] : m \in 0..n}

\* "must_not": [{"terms": {"id": exclude_ids}}] if exclude_ids else []
MustNot(exclude_ids, h) == \A i \in 1..Len(h) : h[i].id \notin exclude_ids

EsSearch(size, exclude_ids) ==
    {h \in HitLists(Min(size, MaxDocs)) :
        DistinctIds(h) /\ ScoreSorted(h) /\ MustNot(exclude_ids, h)}

ExactSize == 50       \* "size": 50 of the exact query
ExactCap == 20        \* return matches[:20]

\* _get_exact_matches_english: up to 50 hits, deduplicated by _id, first 20
GetExactMatchesEnglish == {Take(h, ExactCap) : h \in EsSearch(ExactSize, {})}

\* the relevant query without its must_not clause
GetRelevantMatchesNoMustNot(size, exclude_ids) == EsSearch(size, {})

\* _get_relevant_matches(query, limit, exclude_ids)
GetRelevantMatches(size, exclude_ids) == EsSearch(size, exclude_ids)

\* _get_similar_matches(query, limit, exclude_ids)
GetSimilarMatches(size, exclude_ids) == EsSearch(size, exclude_ids)

Ids(h) == {h[i].id : i \in 1..Len(h)}

ExactPriority == 1000000
RelevantPriority == 100000
SimilarPriority == 10000
SemanticOnlyPriority == 5000
UnknownPriority == 1000

\* tierRank of the fused order: exact 4, relevant 3, similar 2, semantic_only 1
TierRank(t) ==
    IF t = "exact" THEN 4
    ELSE IF t = "relevant" THEN 3
    ELSE IF t = "similar" THEN 2
    ELSE IF t = "semantic_only" THEN 1
    ELSE 0

Tag(h, tier, prio) ==
    [i \in 1..Len(h) |->
        [id |-> h[i].id, elasticsearch_score |-> h[i].elasticsearch_score,
         match_tier |-> tier, tier_priority |-> prio]]

\* the sort keyed by elasticsearch_score alone, tier_priority left out
SortByScoreOnly(s) ==
    SortDescStable(s, [i \in 1..Len(s) |-> <<s[i].elasticsearch_score, 0>>])

\* all_results.sort(key=(tier_priority, elasticsearch_score), reverse=True)
SortByTier(s) ==
    SortDescStable(s, [i \in 1..Len(s) |->
                          <<s[i].tier_priority, s[i].elasticsearch_score>>])

\* the merge without final_results = all_results[:limit]
CombineTiersNoTruncate(ex, rel, sim, lim) ==
    SortByTier(Tag(ex, "exact", ExactPriority)
               \o Tag(rel, "relevant", RelevantPriority)
               \o Tag(sim, "similar", SimilarPriority))

\* lines 146-167: tag, merge, sort, truncate
CombineTiers(ex, rel, sim, lim) ==
    Take(SortByTier(Tag(ex, "exact", ExactPriority)
                    \o Tag(rel, "relevant", RelevantPriority)
                    \o Tag(sim, "similar", SimilarPriority)), lim)

(***************************************************************************)
(* search_with_priority_layers as a state machine, one step per pass.      *)
(***************************************************************************)
InitRetrieve ==
    /\ pc = "start"
    /\ limit \in 0..MaxLimit
    /\ exact_results = <<>>
    /\ relevant_results = <<>>
    /\ similar_results = <<>>
    /\ issued = <<>>
    /\ final_results = <<>>
    /\ es_results = <<>>
    /\ semantic_results = <<>>
    /\ combined_results = <<>>
    /\ results = <<>>
    /\ score_threshold = 0
    /\ candidates = <<>>
    /\ outcome = "none"
    /\ previous = <<>>
    /\ Idle

\* what a call of the index client may do: answer, raise a backend error,
\* or fail to connect
PassFaults == {"none", "error", "unreachable"}

\* try: result = self.es.search(...) ... except Exception: return []
PassResult(fault, hits) == IF fault = "none" THEN hits ELSE {<<>>}

\* a later pass that is skipped once an earlier pass has failed
NeedsMoreUnlessFailed(found, lim) ==
    found < lim /\ \A i \in 1..Len(issued) : issued[i].fault = "none"

\* a later pass that is also issued when the budget is exactly used up
NeedsMoreOrEqual(found, lim) == found <= lim

\* if len(exact_results) < limit / if total_so_far < limit
NeedsMore(found, lim) == found < lim

ExactPass ==
    /\ pc = "start"
    /\ \E fault \in PassFaults :
          /\ \E r \in PassResult(fault, GetExactMatchesEnglish) :
                exact_results' = r
          /\ issued' = Append(issued, [pass |-> "exact", size |-> ExactSize,
                                       fault |-> fault])
    /\ pc' = "exact_done"
    /\ UNCHANGED <<processVars,
                   translateVars, requestVars, limit, relevant_results, similar_results, final_results,
                   fuseVars, scoreVars>>

RelevantPass ==
    /\ pc = "exact_done"
    /\ IF NeedsMore(Len(exact_results), limit)
       THEN \E fault \in PassFaults :
               /\ \E r \in PassResult(fault,
                              GetRelevantMatches(limit - Len(exact_results),
                                                 Ids(exact_results))) :
                     relevant_results' = r
               /\ issued' = Append(issued, [pass |-> "relevant",
                                            size |-> limit - Len(exact_results),
                                            fault |-> fault])
       ELSE UNCHANGED <<relevant_results, issued>>
    /\ pc' = "relevant_done"
    /\ UNCHANGED <<processVars,
                   translateVars, requestVars, limit, exact_results, similar_results, final_results,
                   fuseVars, scoreVars>>

SimilarPass ==
    /\ pc = "relevant_done"
    /\ LET total_so_far == Len(exact_results) + Len(relevant_results)
       IN IF NeedsMore(total_so_far, limit)
          THEN \E fault \in PassFaults :
                  /\ \E r \in PassResult(fault,
                                 GetSimilarMatches(limit - total_so_far,
                                     Ids(exact_results) \cup Ids(relevant_results))) :
                        similar_results' = r
                  /\ issued' = Append(issued, [pass |-> "similar",
                                               size |-> limit - total_so_far,
                                               fault |-> fault])
          ELSE UNCHANGED <<similar_results, issued>>
    /\ pc' = "similar_done"
    /\ UNCHANGED <<processVars,
                   translateVars, requestVars, limit, exact_results, relevant_results, final_results,
                   fuseVars, scoreVars>>

\* lines 146-172: the call returns final_results; no statement of the
\* function raises to the caller
ReturnResults ==
    /\ pc = "similar_done"
    /\ final_results' = CombineTiers(exact_results, relevant_results,
                                     similar_results, limit)
    /\ outcome' = "returned"
    /\ pc' = "done"
    /\ UNCHANGED <<processVars,
                   translateVars, requestVars, limit, exact_results, relevant_results, similar_results,
                   issued, fuseVars, results, score_threshold, candidates,
                   previous>>

NextRetrieve == ExactPass \/ RelevantPass \/ SimilarPass \/ ReturnResults

SpecRetrieve == InitRetrieve /\ [][NextRetrieve]_vars

(***************************************************************************)
(* C1.  Tier exclusivity: in the list returned by the tiered lexical       *)
(* retrieval no experience id appears under more than one of the tiers     *)
(* exact, relevant, similar (and the three pass results are disjoint).     *)
(***************************************************************************)
TierExclusivity ==
    /\ \A i, j \in 1..Len(final_results) :
          final_results[i].id = final_results[j].id
             => final_results[i].match_tier = final_results[j].match_tier
    /\ Ids(exact_results) \cap Ids(relevant_results) = {}
    /\ Ids(exact_results) \cap Ids(similar_results) = {}
    /\ Ids(relevant_results) \cap Ids(similar_results) = {}

\* a finished retrieval that returned all three tiers
TierExclusivityWitness ==
    /\ pc = "done"
    /\ {final_results[i].match_tier : i \in 1..Len(final_results)}
          = {"exact", "relevant", "similar"}

(***************************************************************************)
(* C10.  The tiered lexical retrieval returns at most limit matches, for   *)
(* every limit >= 0, also when the exact pass alone returns more matches   *)
(* than limit.                                                             *)
(***************************************************************************)
RetrievalSizeBound == pc = "done" => Len(final_results) <= limit

\* the exact pass returned more than limit and the result was cut to limit
RetrievalSizeBoundWitness ==
    /\ pc = "done"
    /\ limit >= 1
    /\ Len(exact_results) > limit
    /\ Len(final_results) = limit

\* every match the passes returned, tagged with its tier
AllPassMatches ==
    Range(Tag(exact_results, "exact", ExactPriority))
       \cup Range(Tag(relevant_results, "relevant", RelevantPriority))
       \cup Range(Tag(similar_results, "similar", SimilarPriority))

(***************************************************************************)
(* C11.  The list returned by the tiered lexical retrieval is sorted by     *)
(* tier priority descending (exact, relevant, similar) and within a tier   *)
(* by lexical score descending; truncation comes after the sort: a match   *)
(* that was cut never has a higher tier than a match that was kept, nor    *)
(* the same tier and a higher score.                                       *)
(***************************************************************************)
TieredRetrievalOrder ==
    pc = "done" =>
        /\ \A i, j \in 1..Len(final_results) :
              i < j =>
                 LET a == final_results[i]
                     b == final_results[j]
                 IN /\ TierRank(a.match_tier) >= TierRank(b.match_tier)
                    /\ (a.match_tier = b.match_tier
                          => a.elasticsearch_score >= b.elasticsearch_score)
        /\ Range(final_results) \subseteq AllPassMatches
        /\ \A m \in AllPassMatches \ Range(final_results) :
              \A k \in Range(final_results) :
                 /\ TierRank(k.match_tier) >= TierRank(m.match_tier)
                 /\ (k.match_tier = m.match_tier
                       => k.elasticsearch_score >= m.elasticsearch_score)

\* a returned list in which a relevant match has a higher lexical score
\* than the exact match before it, and a similar match a higher one than
\* the relevant match before it
TieredRetrievalOrderWitness ==
    /\ pc = "done"
    /\ \E i, j, k \in 1..Len(final_results) :
          /\ i < j /\ j < k
          /\ final_results[i].match_tier = "exact"
          /\ final_results[j].match_tier = "relevant"
          /\ final_results[k].match_tier = "similar"
          /\ final_results[i].elasticsearch_score
                < final_results[j].elasticsearch_score
          /\ final_results[j].elasticsearch_score
                < final_results[k].elasticsearch_score

\* the passes that were sent to the index, and those that failed
IssuedPasses == {issued[i].pass : i \in 1..Len(issued)}

FailedPasses == {issued[i].pass : i \in {k \in 1..Len(issued) : issued[k].fault # "none"}}

PassResultOf(pass) ==
    IF pass = "exact" THEN exact_results
    ELSE IF pass = "relevant" THEN relevant_results
    ELSE similar_results

(***************************************************************************)
(* C16.  A backend error raised in one lexical pass makes that pass        *)
(* contribute an empty result only: the remaining passes are still         *)
(* executed (whenever fewer than limit matches were found so far), their   *)
(* matches are returned, and the retrieval call does not raise.            *)
(***************************************************************************)
PassErrorIsolation ==
    pc = "done" =>
        /\ outcome = "returned"
        /\ \A p \in FailedPasses : PassResultOf(p) = <<>>
        /\ "exact" \in IssuedPasses
        /\ Len(exact_results) < limit => "relevant" \in IssuedPasses
        /\ Len(exact_results) + Len(relevant_results) < limit
              => "similar" \in IssuedPasses
        /\ Range(Tag(relevant_results, "relevant", RelevantPriority))
              \subseteq Range(final_results)
        /\ Range(Tag(similar_results, "similar", SimilarPriority))
              \subseteq Range(final_results)
        /\ Len(exact_results) <= limit
              => Range(Tag(exact_results, "exact", ExactPriority))
                    \subseteq Range(final_results)

\* the relevant pass failed; the exact and the similar pass both returned
\* a match and both matches are in the returned list
PassErrorIsolationWitness ==
    /\ pc = "done"
    /\ FailedPasses = {"relevant"}
    /\ Len(exact_results) = 1
    /\ Len(similar_results) = 1
    /\ Len(final_results) = 2

(***************************************************************************)
(* C17.  When the first (exact) pass cannot reach the search index, the    *)
(* retrieval surfaces an IndexUnavailable failure to the caller; it does   *)
(* not return an ordinary empty or partial result.                         *)
(***************************************************************************)
IndexUnavailableSurfaced ==
    (pc = "done" /\ issued[1].fault = "unreachable")
        => outcome = "IndexUnavailable"

(***************************************************************************)
(* Score fusion: _combine_results_with_tier_weights.                       *)
(***************************************************************************)
MaxLexical == 2       \* lexical matches handed to fusion
MaxSemantic == 2      \* semantic rows handed to fusion

FuseIds == 1..(MaxLexical + 1)
FuseScores == {100, 10000, 20000}   \* lexical scores below, at and above the cap
SimValues == {0, 100}          \* norm_cos_sim in 1/100: (1 - distance + 1) / 2

LexicalTiers == {"exact", "relevant", "similar"}

PriorityOfLexicalTier(t) ==
    IF t = "exact" THEN ExactPriority
    ELSE IF t = "relevant" THEN RelevantPriority
    ELSE SimilarPriority

\* what search_with_priority_layers returns: distinct ids, every match
\* tagged with its tier, sorted by (tier_priority, elasticsearch_score)
LexicalMatch ==
    {[id |-> i, elasticsearch_score |-> e, match_tier |-> t,
      tier_priority |-> PriorityOfLexicalTier(t)] :
        i \in FuseIds, e \in FuseScores, t \in LexicalTiers}

TierSorted(h) ==
    \A i \in 1..Len(h) - 1 :
        ~PairGreater(<<h[i+1].tier_priority, h[i+1].elasticsearch_score>>,
                     <<h[i].tier_priority, h[i].elasticsearch_score>>)

LexicalLists ==
    {h \in UNION {[1..m -> LexicalMatch] : m \in 0..MaxLexical} :
        DistinctIds(h) /\ TierSorted(h)}

\* rows of Database.search_experiences: one per experience id (primary
\* key), ORDER BY distance, i.e. by similarity descending
SemanticRow == [id : FuseIds, norm_cos_sim : SimValues]

SimSorted(h) == \A i \in 1..Len(h) - 1 : h[i].norm_cos_sim >= h[i+1].norm_cos_sim

SemanticLists ==
    {h \in UNION {[1..m -> SemanticRow] : m \in 0..MaxSemantic} :
        DistinctIds(h) /\ SimSorted(h)}

\* the elements of s at the indexes in keep, in order
SelectIdx(s, keep) ==
    [p \in 1..Cardinality(keep) |->
        s[CHOOSE i \in keep : Cardinality({j \in keep : j < i}) = p - 1]]

\* for es_result in es_results: if exp_id in seen_ids: continue
FirstPerId(s) ==
    SelectIdx(s, {i \in 1..Len(s) : \A j \in 1..(i-1) : s[j].id # s[i].id})

\* semantic_map = {result['id']: result ...}; .get('norm_cos_sim', 0)
SemanticScore(sem, exp_id) ==
    IF \E i \in 1..Len(sem) : sem[i].id = exp_id
    THEN sem[CHOOSE i \in 1..Len(sem) :
                /\ sem[i].id = exp_id
                /\ \A j \in (i+1)..Len(sem) : sem[j].id # exp_id].norm_cos_sim
    ELSE 0

\* the normalised lexical score without the cap at 1.0
EsComponentUnclamped(es) == es \div 100

\* min(elasticsearch_score / 10000.0, 1.0), in 1/100
EsComponent(es) == Min(es \div 100, 100)

\* the tier weights with the similar branch balanced like the relevant one
CombinedScoreSimilarBalanced(tier, es_score, semantic_score) ==
    IF tier = "exact" THEN 9 * es_score + 1 * semantic_score
    ELSE 5 * es_score + 5 * semantic_score

\* tier weights, result in 1/1000
CombinedScore(tier, es_score, semantic_score) ==
    IF tier = "exact" THEN 9 * es_score + 1 * semantic_score
    ELSE IF tier = "relevant" THEN 5 * es_score + 5 * semantic_score
    ELSE 1 * es_score + 9 * semantic_score

FusePriority(tier) ==
    IF tier = "exact" THEN ExactPriority
    ELSE IF tier = "relevant" THEN RelevantPriority
    ELSE SimilarPriority

\* lines 146-177: one lexical match
FuseLexical(m, sem) ==
    LET es_score == EsComponent(m.elasticsearch_score)
        semantic_score == SemanticScore(sem, m.id)
        combined_score == CombinedScore(m.match_tier, es_score, semantic_score)
    IN [id |-> m.id,
        elasticsearch_score |-> m.elasticsearch_score,
        match_tier |-> m.match_tier,
        tier_priority |-> FusePriority(m.match_tier),
        combined_search_score |-> combined_score,
        es_component_score |-> es_score,
        semantic_component_score |-> semantic_score,
        final_score |-> FusePriority(m.match_tier) * 1000 + combined_score]

\* lines 182-199: one semantic row not seen in the lexical matches
FuseSemanticOnly(r) ==
    [id |-> r.id,
     elasticsearch_score |-> 0,
     match_tier |-> "semantic_only",
     tier_priority |-> SemanticOnlyPriority,
     combined_search_score |-> 9 * r.norm_cos_sim,
     es_component_score |-> 0,
     semantic_component_score |-> r.norm_cos_sim,
     final_score |-> SemanticOnlyPriority * 1000 + 9 * r.norm_cos_sim]

\* the sort keyed by the blended score alone, tier priority left out
SortByCombinedScoreOnly(s) ==
    SortDescStable(s, [i \in 1..Len(s) |-> <<s[i].combined_search_score, 0>>])

\* a descending sort by final_score that puts the later of two equal
\* entries first (an ascending sort, reversed)
SortByFinalScoreTiesReversed(s) ==
    LET n == Len(s)
        rank(i) == 1 + Cardinality({j \in 1..n :
                         \/ s[j].final_score > s[i].final_score
                         \/ (s[j].final_score = s[i].final_score /\ j > i)})
    IN [p \in 1..n |-> s[CHOOSE i \in 1..n : rank(i) = p]]

\* combined_results.sort(key=final_score, reverse=True)
SortByFinalScore(s) ==
    SortDescStable(s, [i \in 1..Len(s) |-> <<s[i].final_score, 0>>])

\* the fusion without the seen_ids test of line 183
CombineResultsNoSeenCheck(es, sem) ==
    LET lex == FirstPerId(es)
        fusedLex == [i \in 1..Len(lex) |-> FuseLexical(lex[i], sem)]
        fusedSem == [i \in 1..Len(sem) |-> FuseSemanticOnly(sem[i])]
    IN SortByFinalScore(fusedLex \o fusedSem)

CombineResultsWithTierWeights(es, sem) ==
    LET lex == FirstPerId(es)
        seen_ids == Ids(lex)
        fusedLex == [i \in 1..Len(lex) |-> FuseLexical(lex[i], sem)]
        rest == SelectIdx(sem, {i \in 1..Len(sem) : sem[i].id \notin seen_ids})
        fusedSem == [i \in 1..Len(rest) |-> FuseSemanticOnly(rest[i])]
    IN SortByFinalScore(fusedLex \o fusedSem)

InitFuse ==
    /\ pc = "fuse"
    /\ limit = 0
    /\ exact_results = <<>>
    /\ relevant_results = <<>>
    /\ similar_results = <<>>
    /\ issued = <<>>
    /\ final_results = <<>>
    /\ es_results \in LexicalLists
    /\ semantic_results \in SemanticLists
    /\ combined_results = <<>>
    /\ results = <<>>
    /\ score_threshold = 0
    /\ candidates = <<>>
    /\ outcome = "none"
    /\ previous = <<>>
    /\ Idle

Combine ==
    /\ pc = "fuse"
    /\ combined_results' = CombineResultsWithTierWeights(es_results,
                                                         semantic_results)
    /\ pc' = "fused"
    /\ UNCHANGED <<processVars,
                   translateVars, requestVars, limit, retrieveVars, es_results, semantic_results, scoreVars>>

NextFuse == Combine

SpecFuse == InitFuse /\ [][NextFuse]_vars

(***************************************************************************)
(* C2.  In the fused list every entry of a higher tier precedes every      *)
(* entry of a lower tier, whatever the lexical scores and semantic         *)
(* similarities, and within one tier the entries are in descending fused   *)
(* score.                                                                  *)
(***************************************************************************)
FusedTierOrder ==
    pc = "fused" =>
        \A i, j \in 1..Len(combined_results) :
            i < j =>
                LET a == combined_results[i]
                    b == combined_results[j]
                IN /\ TierRank(a.match_tier) >= TierRank(b.match_tier)
                   /\ (a.match_tier = b.match_tier
                         => a.combined_search_score >= b.combined_search_score)

\* a fused list in which a similar entry has a lower fused score than a
\* semantic_only entry behind it, and an exact entry a lower one than a
\* relevant entry behind it
FusedTierOrderWitness ==
    /\ pc = "fused"
    /\ \E i, j \in 1..Len(combined_results) :
          /\ i < j
          /\ TierRank(combined_results[i].match_tier)
               > TierRank(combined_results[j].match_tier)
          /\ combined_results[i].combined_search_score
               < combined_results[j].combined_search_score
          /\ combined_results[j].match_tier = "semantic_only"
    /\ \E i, j \in 1..Len(combined_results) :
          /\ i < j
          /\ combined_results[i].match_tier = combined_results[j].match_tier
          /\ combined_results[i].combined_search_score
               > combined_results[j].combined_search_score

\* lexicalNorm = min(lexicalScore / 10000, 1.0), in 1/100
LexicalNorm(lexicalScore) ==
    IF lexicalScore >= 10000 THEN 100 ELSE lexicalScore \div 100

\* the similarity the semantic input holds for an experience id, 0 if none
SemanticOf(exp_id) ==
    IF \E r \in Range(semantic_results) : r.id = exp_id
    THEN (CHOOSE r \in Range(semantic_results) : r.id = exp_id).norm_cos_sim
    ELSE 0

\* the fused entries of an experience id
FusedOf(exp_id) == {f \in Range(combined_results) : f.id = exp_id}

(***************************************************************************)
(* C12.  For every lexical match fusion computes fusedScore from           *)
(* lexicalNorm = min(lexicalScore / 10000, 1.0) and the semantic           *)
(* similarity looked up by experience id (0.0 when absent) as              *)
(* 0.9 lexicalNorm + 0.1 semantic for exact, 0.5 lexicalNorm + 0.5         *)
(* semantic for relevant, 0.1 lexicalNorm + 0.9 semantic for similar, and  *)
(* the match keeps its lexical tier.                                       *)
(***************************************************************************)
FusedScoreFormula ==
    pc = "fused" =>
        \A m \in Range(es_results) :
            /\ FusedOf(m.id) # {}
            /\ \A f \in FusedOf(m.id) :
                  LET n == LexicalNorm(m.elasticsearch_score)
                      v == SemanticOf(m.id)
                  IN /\ f.match_tier = m.match_tier
                     /\ m.match_tier = "exact"
                           => f.combined_search_score = 9 * n + 1 * v
                     /\ m.match_tier = "relevant"
                           => f.combined_search_score = 5 * n + 5 * v
                     /\ m.match_tier \notin {"exact", "relevant"}
                           => f.combined_search_score = 1 * n + 9 * v

\* a similar match above the cap with a semantic similarity of 1.0, fused
\* to 0.1 * 1.0 + 0.9 * 1.0, next to a lexical match without a semantic row
FusedScoreFormulaWitness ==
    /\ pc = "fused"
    /\ \E f, g \in Range(combined_results) :
          /\ f.match_tier = "similar"
          /\ f.elasticsearch_score > 10000
          /\ SemanticOf(f.id) = 100
          /\ f.combined_search_score = 1000
          /\ g.match_tier \in {"exact", "relevant"}
          /\ \A r \in Range(semantic_results) : r.id # g.id

\* the positions of an experience id in the fused list
FusedPositions(exp_id) ==
    {i \in 1..Len(combined_results) : combined_results[i].id = exp_id}

(***************************************************************************)
(* C13.  Fusion adds every semantic match whose experience id occurs in no *)
(* lexical match exactly once, with tier semantic_only and fusedScore      *)
(* 0.9 * similarity, behind every lexical-tier entry; a semantic match     *)
(* whose id occurs in a lexical match gets no entry of its own; the fused  *)
(* list has exactly one entry per distinct experience id of the two        *)
(* inputs.                                                                 *)
(***************************************************************************)
FusedOncePerId ==
    pc = "fused" =>
        /\ Ids(combined_results) = Ids(es_results) \cup Ids(semantic_results)
        /\ \A x \in Ids(combined_results) : Cardinality(FusedPositions(x)) = 1
        /\ \A r \in Range(semantic_results) :
              \A i \in FusedPositions(r.id) :
                 IF r.id \in Ids(es_results)
                 THEN combined_results[i].match_tier # "semantic_only"
                 ELSE /\ combined_results[i].match_tier = "semantic_only"
                      /\ combined_results[i].combined_search_score
                            = 9 * r.norm_cos_sim
                      /\ \A j \in 1..Len(combined_results) :
                            combined_results[j].match_tier \in LexicalTiers
                               => j < i

\* one semantic row fused into its lexical match, another one added as
\* semantic_only with a higher fused score than a lexical entry before it
FusedOncePerIdWitness ==
    /\ pc = "fused"
    /\ \E r, q \in Range(semantic_results) :
          /\ r.id \in Ids(es_results)
          /\ q.id \notin Ids(es_results)
          /\ \E i, j \in 1..Len(combined_results) :
                /\ i < j
                /\ combined_results[j].id = q.id
                /\ combined_results[i].match_tier \in LexicalTiers
                /\ combined_results[i].combined_search_score
                      < combined_results[j].combined_search_score

\* the lexical weight of a tier, in tenths
LexicalWeight(tier) ==
    IF tier = "exact" THEN 9 ELSE IF tier = "relevant" THEN 5 ELSE 1

MaxRows == 2          \* rows handed to the scorer
MaxScoreLimit == 2    \* largest limit handed to the scorer

CandidateIds == {1, 2}
RowScores == {0, 100000}             \* elasticsearch_score of a lexical row
RowDays == {0, 2000}                 \* (end_date - start_date).days
ScoreThresholds == {1500, 50000}     \* 0.15 and 5.0

\* A row of a tier-based result list.  Lexical rows are index documents;
\* reindex writes "" for every missing text, so they always pass the
\* ExperienceResponse validation.  semantic_only rows are rows of the
\* relational store, where company_name and the contents may be NULL, and
\* such a row does not validate (company_name: str).
LexicalRow ==
    [candidate_id : CandidateIds, match_tier : LexicalTiers,
     elasticsearch_score : RowScores, days : RowDays, valid : {TRUE}]

SemanticOnlyRow ==
    [candidate_id : CandidateIds, match_tier : {"semantic_only"},
     elasticsearch_score : {0}, days : RowDays, valid : BOOLEAN]

TierRow == LexicalRow \cup SemanticOnlyRow

\* rows of Database.search_experiences, handed over without tiers;
\* norm_cos_sim and the ts_rank values in 1/100
LegacyRow ==
    [candidate_id : CandidateIds, norm_cos_sim : {50, 100},
     fts_vector_en_rank : {0, 50}, fts_vector_mn_rank : {0},
     days : RowDays, valid : BOOLEAN]

\* row.get('match_tier')
GetTier(row, default) ==
    IF "match_tier" \in DOMAIN row THEN row.match_tier ELSE default

\* row.get('elasticsearch_score', 0)
GetEsScore(row) ==
    IF "elasticsearch_score" \in DOMAIN row THEN row.elasticsearch_score ELSE 0

\* tier_priority_map.get(tier, 1000)
ScorerPriority(tier) ==
    IF tier = "exact" THEN ExactPriority
    ELSE IF tier = "relevant" THEN RelevantPriority
    ELSE IF tier = "similar" THEN SimilarPriority
    ELSE IF tier = "semantic_only" THEN SemanticOnlyPriority
    ELSE UnknownPriority

\* the scorer is handed the list a search returned: its tiers never increase
TiersDescend(h) ==
    \A i \in 1..Len(h) - 1 :
        ScorerPriority(h[i].match_tier) >= ScorerPriority(h[i+1].match_tier)

TierResultLists ==
    {h \in UNION {[1..m -> TierRow] : m \in 0..MaxRows} : TiersDescend(h)}

TierResultListsWide ==
    {h \in UNION {[1..m -> TierRow] : m \in 0..(MaxRows + 1)} : TiersDescend(h)}

LegacyResultLists == UNION {[1..m -> LegacyRow] : m \in 0..MaxRows}

\* calculate_experience_multiplier(years), times 10, with
\* years = max(days / 365.25, 0.0) of _calculate_experience_years
ExperienceMultiplier(days) ==
    LET d == Max(days, 0) * 100
    IN IF d <= 1 * 36525 THEN 10
       ELSE IF d <= 2 * 36525 THEN 12
       ELSE IF d <= 3 * 36525 THEN 14
       ELSE IF d <= 4 * 36525 THEN 16
       ELSE IF d <= 5 * 36525 THEN 18
       ELSE 20

\* _calculate_tier_score_fixed, result in 1/10000
CalculateTierScoreFixed(row, days) ==
    LET tier == GetTier(row, "similar")
        elasticsearch_score == GetEsScore(row)
        m == ExperienceMultiplier(days)
    IN IF tier = "exact"
       THEN (10000 + elasticsearch_score) * (100 + 3 * m)
       ELSE IF tier = "relevant"
       THEN ((10000 + elasticsearch_score) * (100 + 2 * m)) \div 10
       ELSE ((10000 + elasticsearch_score) * (100 + m)) \div 100

\* lines 128-138: exp_data of one row.  src is the row the experience was
\* built from; it is no field of ExperienceResponse and no operator of the
\* scorer reads it.
ExpData(row) ==
    [src |-> row,
     days |-> row.days,
     combined_score |-> CalculateTierScoreFixed(row, row.days),
     match_tier |-> GetTier(row, "unknown"),
     elasticsearch_score |-> GetEsScore(row),
     tier_priority |-> ScorerPriority(GetTier(row, "unknown")),
     valid |-> row.valid]

\* sorted(results, key=(tier_priority_map.get(tier, 1000), es), reverse=True)
SortResultsByTier(rs) ==
    SortDescStable(rs, [i \in 1..Len(rs) |->
        <<ScorerPriority(GetTier(rs[i], "unknown")), GetEsScore(rs[i])>>])

\* max(experiences, key=combined_score): the first of the maximal ones
BestExperience(exps) ==
    exps[CHOOSE i \in 1..Len(exps) :
            /\ \A j \in 1..Len(exps) : exps[j].combined_score <= exps[i].combined_score
            /\ \A j \in 1..(i-1) : exps[j].combined_score < exps[i].combined_score]

\* sum of s[i].combined_score for the indexes lo..hi that exist
SumScores(s, lo, hi) ==
    LET f[i \in (lo-1)..hi] ==
            IF i < lo THEN 0
            ELSE f[i-1] + (IF i <= Len(s) THEN s[i].combined_score ELSE 0)
    IN f[hi]

ExactBoost == 1000

\* _calculate_candidate_final_score_fixed, result in 1/100000.
\* experiences[1:3] are the second and third list elements.
CalculateCandidateFinalScoreFixed(exps) ==
    IF Len(exps) = 0 THEN 0
    ELSE LET best_experience == BestExperience(exps)
             best_score == best_experience.combined_score
             boost == IF best_experience.match_tier = "exact"
                      THEN ExactBoost * 100000 + 10 * best_score
                      ELSE 10 * best_score
             additional_score == SumScores(exps, 2, 3)
         IN boost + additional_score

\* the candidate ids in the order of their first row
CandidateOrder(rs) ==
    LET firsts == SelectIdx(rs, {i \in 1..Len(rs) :
                     \A j \in 1..(i-1) : rs[j].candidate_id # rs[i].candidate_id})
    IN [i \in 1..Len(firsts) |-> firsts[i].candidate_id]

\* the grouping that puts every row under every candidate
RowsOfAny(rs, c) == rs

RowsOf(rs, c) == SelectIdx(rs, {i \in 1..Len(rs) : rs[i].candidate_id = c})

\* the filter that keeps every experience
AboveThresholdKeepAll(exps, threshold) == exps

\* [exp for exp in experiences if exp["combined_score"] > score_threshold]
AboveThreshold(exps, threshold) ==
    SelectIdx(exps, {i \in 1..Len(exps) : exps[i].combined_score > threshold})

\* ExperienceResponse(**exp) for every kept experience
AllValid(exps) == \A i \in 1..Len(exps) : exps[i].valid

\* a descending sort that puts the later of two equal candidates first
SortCandidatesTiesReversed(cs) ==
    LET n == Len(cs)
        rank(i) == 1 + Cardinality({j \in 1..n :
                         \/ cs[j].final_score > cs[i].final_score
                         \/ (cs[j].final_score = cs[i].final_score /\ j > i)})
    IN [p \in 1..n |-> cs[CHOOSE i \in 1..n : rank(i) = p]]

\* candidates.sort(key=final_score, reverse=True)
SortCandidates(cs) ==
    SortDescStable(cs, [i \in 1..Len(cs) |-> <<cs[i].final_score, 0>>])

\* the responses with the final score taken over the experiences that
\* passed the threshold
TierCandidatesFilteredFirst(rs, threshold) ==
    LET sorted_results == SortResultsByTier(rs)
        order == CandidateOrder(sorted_results)
        response(c) ==
            LET rows == RowsOf(sorted_results, c)
                experiences == [i \in 1..Len(rows) |-> ExpData(rows[i])]
                kept == AboveThreshold(experiences, threshold)
            IN [candidate_id |-> c,
                final_score |-> CalculateCandidateFinalScoreFixed(kept),
                experiences |-> kept]
        all == [i \in 1..Len(order) |-> response(order[i])]
    IN SelectIdx(all, {i \in 1..Len(all) :
                         /\ Len(all[i].experiences) > 0
                         /\ AllValid(all[i].experiences)})

\* lines 95-167: one response per candidate, in first-seen order; a
\* candidate without an experience above the threshold, or whose response
\* does not validate, is left out
TierCandidates(rs, threshold) ==
    LET sorted_results == SortResultsByTier(rs)
        order == CandidateOrder(sorted_results)
        response(c) ==
            LET rows == RowsOf(sorted_results, c)
                experiences == [i \in 1..Len(rows) |-> ExpData(rows[i])]
            IN [candidate_id |-> c,
                final_score |-> CalculateCandidateFinalScoreFixed(experiences),
                experiences |-> AboveThreshold(experiences, threshold)]
        all == [i \in 1..Len(order) |-> response(order[i])]
    IN SelectIdx(all, {i \in 1..Len(all) :
                         /\ Len(all[i].experiences) > 0
                         /\ AllValid(all[i].experiences)})

\* _score_tier_based_results_fixed
ScoreTierBasedResultsFixed(rs, threshold, lim) ==
    Take(SortCandidates(TierCandidates(rs, threshold)), lim)

KeywordWeight == 80   \* self.keyword_weight = 0.8, in 1/100
SemanticWeight == 20  \* self.semantic_weight = 0.2, in 1/100

\* lines 313-327: combined_score of a row in the legacy path, in 1/10000
LegacyCombinedScore(row) ==
    LET semantic_score == IF "norm_cos_sim" \in DOMAIN row
                          THEN row.norm_cos_sim ELSE 0
    IN IF "elasticsearch_score" \in DOMAIN row
       THEN KeywordWeight * EsComponent(row.elasticsearch_score)
              + SemanticWeight * semantic_score
       ELSE LET keyword_score ==
                    Min(Max(Max(row.fts_vector_en_rank, row.fts_vector_mn_rank), 0), 100)
            IN KeywordWeight * keyword_score + SemanticWeight * semantic_score

\* lines 329-336
LegacyExpData(row) ==
    [src |-> row,
     days |-> row.days,
     combined_score |-> LegacyCombinedScore(row),
     valid |-> row.valid]

\* final_score += multiplier * combined_score over the kept experiences,
\* in 1/100000
LegacyFinalScore(kept) ==
    LET f[i \in 0..Len(kept)] ==
            IF i = 0 THEN 0
            ELSE f[i-1] + ExperienceMultiplier(kept[i].days) * kept[i].combined_score
    IN f[Len(kept)]

\* lines 340-365, when no ExperienceResponse fails to validate
LegacyCandidates(rs, threshold) ==
    LET order == CandidateOrder(rs)
        response(c) ==
            LET rows == RowsOf(rs, c)
                experiences == [i \in 1..Len(rows) |-> LegacyExpData(rows[i])]
                relevant_experiences == AboveThreshold(experiences, threshold)
            IN [candidate_id |-> c,
                final_score |-> LegacyFinalScore(relevant_experiences),
                experiences |-> relevant_experiences]
        all == [i \in 1..Len(order) |-> response(order[i])]
    IN SelectIdx(all, {i \in 1..Len(all) : Len(all[i].experiences) > 0})

\* line 350 is outside the try of line 355: an experience above the
\* threshold that does not validate ends the whole call
LegacyRaises(rs, threshold) ==
    \E i \in 1..Len(rs) :
        LegacyCombinedScore(rs[i]) > threshold /\ ~rs[i].valid

\* _score_legacy_results
ScoreLegacyResults(rs, threshold, lim) ==
    Take(SortCandidates(LegacyCandidates(rs, threshold)), lim)

\* has_tiers = any(result.get('match_tier') for result in results[:5])
HasTiers(rs) ==
    \E i \in 1..Min(5, Len(rs)) : "match_tier" \in DOMAIN rs[i]

\* score_and_rank_candidates: the returned list
ScoreAndRankCandidates(rs, threshold, lim) ==
    IF HasTiers(rs)
    THEN ScoreTierBasedResultsFixed(rs, threshold, lim)
    ELSE ScoreLegacyResults(rs, threshold, lim)

\* score_and_rank_candidates: whether the call raises instead
ScoreAndRankRaises(rs, threshold) == ~HasTiers(rs) /\ LegacyRaises(rs, threshold)

InitScoreWith(lists) ==
    /\ pc = "score"
    /\ limit \in 0..MaxScoreLimit
    /\ exact_results = <<>>
    /\ relevant_results = <<>>
    /\ similar_results = <<>>
    /\ issued = <<>>
    /\ final_results = <<>>
    /\ es_results = <<>>
    /\ semantic_results = <<>>
    /\ combined_results = <<>>
    /\ results \in lists
    /\ score_threshold \in ScoreThresholds
    /\ candidates = <<>>
    /\ outcome = "none"
    /\ previous = <<>>
    /\ Idle

InitScore == InitScoreWith(TierResultLists) \/ InitScoreWith(LegacyResultLists)

InitScoreWide == InitScoreWith(TierResultListsWide)

\* one call of score_and_rank_candidates
ScoreAndRank ==
    /\ pc = "score"
    /\ IF ScoreAndRankRaises(results, score_threshold)
       THEN /\ outcome' = "raised"
            /\ candidates' = <<>>
       ELSE /\ outcome' = "returned"
            /\ candidates' = ScoreAndRankCandidates(results, score_threshold, limit)
    /\ pc' = "scored"
    /\ UNCHANGED <<processVars,
                   translateVars, requestVars, limit, retrieveVars, fuseVars, results, score_threshold,
                   previous>>

\* a second call with the same results and limit and a threshold t >= the
\* first one
Rescore ==
    /\ pc = "scored"
    /\ outcome = "returned"
    /\ \E t \in ScoreThresholds :
          /\ t >= score_threshold
          /\ ~ScoreAndRankRaises(results, t)
          /\ score_threshold' = t
          /\ candidates' = ScoreAndRankCandidates(results, t, limit)
    /\ previous' = <<score_threshold, Len(candidates)>>
    /\ pc' = "rescored"
    /\ UNCHANGED <<processVars,
                   translateVars, requestVars, limit, retrieveVars, fuseVars, results, outcome>>

NextScore == ScoreAndRank \/ Rescore

SpecScore == InitScore /\ [][NextScore]_vars

SpecScoreWide == InitScoreWide /\ [][NextScore]_vars

(***************************************************************************)
(* Properties of the scorer.                                               *)
(***************************************************************************)
Scored == pc \in {"scored", "rescored"} /\ outcome = "returned"

\* the experience score the running path gives a row
ScoreOfRow(row) ==
    IF HasTiers(results) THEN CalculateTierScoreFixed(row, row.days)
    ELSE LegacyCombinedScore(row)

\* the input as the running path walks it
WalkOrder == IF HasTiers(results) THEN SortResultsByTier(results) ELSE results

CountIn(s, x) == Cardinality({i \in 1..Len(s) : s[i] = x})

SrcOf(exps) == [i \in 1..Len(exps) |-> exps[i].src]

HasExactRow(c) ==
    \E i \in 1..Len(results) :
        results[i].candidate_id = c /\ results[i].match_tier = "exact"

\* every experience of every returned candidate
ReturnedExperiences ==
    UNION {Range(candidates[i].experiences) : i \in 1..Len(candidates)}

(***************************************************************************)
(* C3.  Exact-boost invariant: in the ranked list a candidate with at      *)
(* least one exact-tier experience has a strictly higher finalScore, and   *)
(* an earlier position, than any candidate without an exact experience,    *)
(* whatever the number, retrieval scores and durations of the experiences. *)
(***************************************************************************)
ExactBoostInvariant ==
    (Scored /\ HasTiers(results)) =>
        \A i, j \in 1..Len(candidates) :
            (/\ HasExactRow(candidates[i].candidate_id)
             /\ ~HasExactRow(candidates[j].candidate_id))
                => /\ candidates[i].final_score > candidates[j].final_score
                   /\ i < j

(***************************************************************************)
(* C4.  Score-band ordering: every exact-tier experience score is strictly *)
(* greater than every relevant-tier score, and every relevant-tier score   *)
(* strictly greater than every similar or semantic_only score, for any     *)
(* years >= 0 and any non-negative retrieval score.                        *)
(***************************************************************************)
ScoreBandOrdering ==
    (Scored /\ HasTiers(results)) =>
        \A a, b \in ReturnedExperiences :
            /\ (a.match_tier = "exact" /\ b.match_tier = "relevant")
                  => a.combined_score > b.combined_score
            /\ (a.match_tier = "relevant"
                  /\ b.match_tier \in {"similar", "semantic_only"})
                  => a.combined_score > b.combined_score

(***************************************************************************)
(* C5.  finalScore of a candidate = its best experience score, plus 1000   *)
(* when the best experience is exact, plus 0.1 times the sum of its second *)
(* and third highest experience scores (never the best one again), for any *)
(* order and durations of the experiences.                                 *)
(***************************************************************************)
FinalScoreByRank(c) ==
    LET rows == RowsOf(WalkOrder, c)
        exps == [i \in 1..Len(rows) |-> ExpData(rows[i])]
        ranked == SortDescStable(exps,
                      [i \in 1..Len(exps) |-> <<exps[i].combined_score, 0>>])
    IN 10 * ranked[1].combined_score
         + (IF ranked[1].match_tier = "exact" THEN ExactBoost * 100000 ELSE 0)
         + SumScores(ranked, 2, 3)

FinalScoreFormula ==
    (Scored /\ HasTiers(results)) =>
        \A i \in 1..Len(candidates) :
            candidates[i].final_score = FinalScoreByRank(candidates[i].candidate_id)

(***************************************************************************)
(* C7.  For every returned candidate the experience list holds exactly     *)
(* those of the candidate's experiences whose score exceeds the threshold  *)
(* and is never empty, in the tier-based and in the legacy path.           *)
(***************************************************************************)
ThresholdFilter ==
    Scored =>
        \A i \in 1..Len(candidates) :
            LET c == candidates[i].candidate_id
                rows == RowsOf(results, c)
                kept == SrcOf(candidates[i].experiences)
            IN /\ Len(kept) > 0
               /\ \A k \in 1..Len(candidates[i].experiences) :
                     /\ candidates[i].experiences[k].combined_score > score_threshold
                     /\ candidates[i].experiences[k].combined_score
                           = ScoreOfRow(candidates[i].experiences[k].src)
               /\ \A r \in Range(rows) \cup Range(kept) :
                     CountIn(kept, r)
                        = IF ScoreOfRow(r) > score_threshold
                          THEN CountIn(rows, r) ELSE 0

\* a returned candidate with one experience kept and one dropped, tier path
ThresholdFilterWitness ==
    /\ Scored
    /\ HasTiers(results)
    /\ \E i \in 1..Len(candidates) :
          /\ Len(candidates[i].experiences) = 1
          /\ Len(RowsOf(results, candidates[i].candidate_id)) = 2

(***************************************************************************)
(* C8.  For fixed results and limit the number of returned candidates      *)
(* never grows when score_threshold is raised.                             *)
(***************************************************************************)
ThresholdMonotone ==
    (pc = "rescored" /\ previous[1] <= score_threshold)
        => Len(candidates) <= previous[2]

(***************************************************************************)
(* C9.  The returned list has at most limit entries (limit >= 0), is in    *)
(* non-increasing finalScore order, and candidates with equal finalScore   *)
(* appear in the order in which they were first seen in the tier-sorted    *)
(* input.                                                                  *)
(***************************************************************************)
FirstSeen(c) ==
    CHOOSE i \in 1..Len(WalkOrder) :
        /\ WalkOrder[i].candidate_id = c
        /\ \A j \in 1..(i-1) : WalkOrder[j].candidate_id # c

ExperienceStore(id) ==
    [candidate_id |-> 1 + (id % 2),
     days |-> IF id > 2 THEN 2000 ELSE 0,
     valid |-> TRUE]

\* a fused match with the fields of its experience record
WithExperience(f) ==
    [id |-> f.id,
     candidate_id |-> ExperienceStore(f.id).candidate_id,
     days |-> ExperienceStore(f.id).days,
     valid |-> ExperienceStore(f.id).valid,
     match_tier |-> f.match_tier,
     elasticsearch_score |-> f.elasticsearch_score,
     tier_priority |-> f.tier_priority,
     combined_search_score |-> f.combined_search_score,
     semantic_component_score |-> f.semantic_component_score]

\* enriched_results[:limit] of _hybrid_search_with_tiers
HybridSearchWithTiers(es, sem, lim) ==
    LET combined == CombineResultsWithTierWeights(es, sem)
    IN Take([i \in 1..Len(combined) |-> WithExperience(combined[i])], lim)

InitHybrid ==
    /\ pc = "request"
    /\ limit \in 1..MaxScoreLimit
    /\ exact_results = <<>>
    /\ relevant_results = <<>>
    /\ similar_results = <<>>
    /\ issued = <<>>
    /\ final_results = <<>>
    /\ es_results \in LexicalLists
    /\ semantic_results \in SemanticLists
    /\ combined_results = <<>>
    /\ results = <<>>
    /\ score_threshold \in ScoreThresholds
    /\ candidates = <<>>
    /\ outcome = "none"
    /\ previous = <<>>
    /\ Idle

\* search_candidates, search_method "hybrid": the search is run with
\* limit * 2, the scorer with limit
HybridRequest ==
    /\ pc = "request"
    /\ combined_results' = CombineResultsWithTierWeights(es_results,
                                                         semantic_results)
    /\ results' = HybridSearchWithTiers(es_results, semantic_results, limit * 2)
    /\ candidates' = ScoreAndRankCandidates(results', score_threshold, limit)
    /\ outcome' = "returned"
    /\ pc' = "scored"
    /\ UNCHANGED <<processVars,
                   translateVars, requestVars, limit, retrieveVars, es_results, semantic_results,
                   score_threshold, previous>>

NextHybrid == HybridRequest

SpecHybrid == InitHybrid /\ [][NextHybrid]_vars

(***************************************************************************)
(* C6.  The experience score is a function of the match's tier, its fused  *)
(* score and its years: (100 + fused/100)(1 + 0.3m) for exact,             *)
(* (10 + fused/1000)(1 + 0.2m) for relevant, (1 + fused/10000)(1 + 0.1m)   *)
(* otherwise; so in hybrid mode two matches of the same tier and years     *)
(* that differ in fused score get different experience scores.             *)
(***************************************************************************)
\* numerator and denominator of the stated score in 1/10000, the fused
\* score f given in 1/1000
StatedScoreNum(tier, f, m) ==
    IF tier = "exact" THEN (100000 + f) * (100 + 3 * m)
    ELSE IF tier = "relevant" THEN (10000000 + f) * (100 + 2 * m)
    ELSE (10000000 + f) * (100 + m)

StatedScoreDen(tier) ==
    IF tier = "exact" THEN 10
    ELSE IF tier = "relevant" THEN 10000
    ELSE 100000

ExperienceScoreFromFused ==
    (pc = "scored" /\ HasTiers(results)) =>
        /\ \A a \in ReturnedExperiences :
              LET n == StatedScoreNum(a.match_tier, a.src.combined_search_score,
                                      ExperienceMultiplier(a.days))
                  d == StatedScoreDen(a.match_tier)
              IN n % d = 0 /\ a.combined_score = n \div d
        /\ \A a, b \in ReturnedExperiences :
              (/\ a.match_tier = b.match_tier
               /\ a.days = b.days
               /\ a.src.combined_search_score # b.src.combined_search_score)
                 => a.combined_score # b.combined_score

(***************************************************************************)
(* Translator.translate_mongolian_to_english.  A text is a sequence of     *)
(* characters; "a" and "A" are ASCII letters, "mn" stands for one Cyrillic *)
(* letter, " " for a whitespace character and "\\" for a backslash.        *)
(***************************************************************************)
MaxTextLen == 2       \* longest text handed to the translator
MaxCached == 1        \* most entries the memory cache holds in the model

Chars == {"a", "A", "mn", " ", "\\"}
AsciiChars == {"a", "A", " ", "\\"}
Whitespace == {" "}

Texts == UNION {[1..n -> Chars] : n \in 0..MaxTextLen}

\* str.strip()
Strip(t) ==
    LET solid == {i \in 1..Len(t) : t[i] \notin Whitespace}
    IN IF solid = {} THEN <<>>
       ELSE SubSeq(t, CHOOSE i \in solid : \A j \in solid : i <= j,
                      CHOOSE i \in solid : \A j \in solid : i >= j)

\* str.lower()
Lower(t) ==
    [i \in 1..Len(t) |->
        IF t[i] = "A" THEN "a" ELSE IF t[i] = "MN" THEN "mn" ELSE t[i]]

\* _get_text_hash: md5 of text.strip().lower(); the model keeps the hashed
\* string itself
GetTextHash(t) == Lower(Strip(t))

\* Translator._is_likely_english: more than 80% ASCII characters
TranslatorIsLikelyEnglish(t) ==
    IF Len(t) = 0 THEN FALSE
    ELSE 10 * Cardinality({i \in 1..Len(t) : t[i] \in AsciiChars}) > 8 * Len(t)

MaxInputChars == 4000

\* _clean_input_text: backslashes removed, then ' '.join(text.split())
CleanInputText(t) ==
    LET u == SelectSeq(t, LAMBDA c : c # "\\")
        solid == {i \in 1..Len(u) : u[i] \notin Whitespace}
        keep == {i \in 1..Len(u) :
                    \/ i \in solid
                    \/ /\ i - 1 \in solid
                       /\ \E j \in solid : j > i}
    IN SelectIdx(u, keep)

\* _is_valid_translation
IsValidTranslation(original, t) ==
    /\ Len(Strip(t)) # 0
    /\ Lower(original) # Lower(t)
    /\ ~(10 * Len(t) < 3 * Len(original))
    /\ ~(Len(t) > 3 * Len(original))

\* what requests.post and the reading of the answer may do: raise
\* (connection error, HTTP error status, malformed body), time out after
\* 10 seconds, or deliver a content
Responses == {<<>>, <<"a">>, <<"mn">>, <<" ", "a", "A">>}

ServiceOutcomes ==
    [fault : {"error", "timeout"}, response : {<<>>}]
       \cup [fault : {"none"}, response : Responses]

\* the part of the call after the early returns: text is stripped and not
\* English, the cache missed.  Returns <<returned text, cache>>.
CallService(t, cache, o) ==
    LET cleaned == CleanInputText(Take(t, MaxInputChars))
        translated_text == Strip(o.response)
    IN IF o.fault = "none" /\ IsValidTranslation(cleaned, translated_text)
       THEN <<translated_text,
              [h \in DOMAIN cache \cup {GetTextHash(cleaned)} |->
                  IF h = GetTextHash(cleaned) THEN translated_text ELSE cache[h]]>>
       ELSE <<cleaned, cache>>

\* the cache without the entry of hash h
CacheWithout(cache, h) == [k \in DOMAIN cache \ {h} |-> cache[k]]

InitTranslate ==
    /\ pc = "translate"
    /\ limit = 0
    /\ exact_results = <<>>
    /\ relevant_results = <<>>
    /\ similar_results = <<>>
    /\ issued = <<>>
    /\ final_results = <<>>
    /\ es_results = <<>>
    /\ semantic_results = <<>>
    /\ combined_results = <<>>
    /\ results = <<>>
    /\ score_threshold = 0
    /\ candidates = <<>>
    /\ outcome = "none"
    /\ previous = <<>>
    /\ Idle

\* the early returns of lines 115-124: nothing to translate
TranslateNothing ==
    /\ pc = "translate"
    /\ \E t \in Texts :
          /\ Len(Strip(t)) = 0 \/ TranslatorIsLikelyEnglish(Strip(t))
          /\ text' = t
          /\ translated' = IF Len(Strip(t)) = 0 THEN t ELSE Strip(t)
    /\ issued' = <<>>
    /\ outcome' = "returned"
    /\ UNCHANGED <<processVars,
                   pc, limit, exact_results, relevant_results, similar_results,
                   final_results, fuseVars, results, score_threshold,
                   candidates, previous, memory_cache, requestVars>>

\* lines 126-129: the memory cache has the translation and it has not
\* expired
TranslateCached ==
    /\ pc = "translate"
    /\ \E t \in Texts :
          /\ Len(Strip(t)) # 0
          /\ ~TranslatorIsLikelyEnglish(Strip(t))
          /\ GetTextHash(Strip(t)) \in DOMAIN memory_cache
          /\ text' = t
          /\ translated' = memory_cache[GetTextHash(Strip(t))]
    /\ issued' = <<>>
    /\ outcome' = "returned"
    /\ UNCHANGED <<processVars,
                   pc, limit, exact_results, relevant_results, similar_results,
                   final_results, fuseVars, results, score_threshold,
                   candidates, previous, memory_cache, requestVars>>

\* lines 126-189: the memory cache misses (no entry, or an expired entry,
\* which is deleted); the translator is built without a database, so the
\* database cache returns None; the service is called
TranslateCall ==
    /\ pc = "translate"
    /\ \E t \in Texts, o \in ServiceOutcomes :
          LET stripped == Strip(t)
              missed == CacheWithout(memory_cache, GetTextHash(stripped))
              r == CallService(stripped, missed, o)
          IN /\ Len(stripped) # 0
             /\ ~TranslatorIsLikelyEnglish(stripped)
             /\ Cardinality(DOMAIN r[2]) <= MaxCached
             /\ text' = t
             /\ translated' = r[1]
             /\ memory_cache' = r[2]
             /\ issued' = <<[call |-> "translate", fault |-> o.fault,
                            response |-> o.response,
                            expired |-> GetTextHash(stripped)
                                            \in DOMAIN memory_cache]>>
    /\ outcome' = "returned"
    /\ UNCHANGED <<processVars,
                   pc, limit, exact_results, relevant_results, similar_results,
                   final_results, fuseVars, results, score_threshold,
                   candidates, previous, requestVars>>

NextTranslate == TranslateNothing \/ TranslateCached \/ TranslateCall

SpecTranslate == InitTranslate /\ [][NextTranslate]_vars

\* the last call went to the service and got no usable translation
TranslationFailed ==
    /\ outcome = "returned"
    /\ Len(issued) = 1
    /\ \/ issued[1].fault # "none"
       \/ ~IsValidTranslation(CleanInputText(Take(Strip(text), MaxInputChars)),
                              Strip(issued[1].response))

(***************************************************************************)
(* C20.  When the external translation call fails (error, timeout, or a    *)
(* translation rejected by the quality check),                             *)
(* translate_mongolian_to_english raises nothing and returns the original  *)
(* input text unmodified, for every input text.                            *)
(***************************************************************************)
FailedTranslationKeepsText ==
    (pc = "translate" /\ TranslationFailed)
        => outcome = "returned" /\ translated = text

(***************************************************************************)
(* The search request: search_candidates of main.py, with                  *)
(* QueryProcessor.process_query, OptimizedHybridSearch.search and the      *)
(* scorer.  The hybrid search object is available (the index service is    *)
(* connected).  A query text is "" or "q" (any non-empty text); the query  *)
(* vector is "vector" or "None".                                           *)
(***************************************************************************)
MaxRequestDocs == 1   \* matches a retriever returns to a request

RequestTexts == {<<>>, <<" ">>, <<"mn">>}
SearchMethods == {"elasticsearch", "hybrid", "semantic", "postgres"}

\* what generate_embedding and reduce_embedding may do: deliver a vector,
\* fail (both catch and return None), or get no vector from the provider
EmbeddingOutcomes == {"none", "error", "no_vector"}

\* what Database.search_experiences may do: return rows, or raise (the
\* statement fails or times out; line 132 raises after the except block)
SemanticOutcomes == {"none", "error", "timeout"}

RequestLexicalLists == {h \in LexicalLists : Len(h) <= MaxRequestDocs}
RequestSemanticLists == {h \in SemanticLists : Len(h) <= MaxRequestDocs}

\* process_query, lines 41-87: <<returned tuple, calls made>>
ProcessQuery(position, description, embedding) ==
    LET position_mn == Strip(position)
        description_mn == Strip(description)
        translations ==
            (IF Len(position_mn) # 0
             THEN <<[call |-> "translate", fault |-> "none"]>> ELSE <<>>)
            \o (IF Len(description_mn) # 0
                THEN <<[call |-> "translate", fault |-> "none"]>> ELSE <<>>)
    IN IF Len(position_mn) = 0 /\ Len(description_mn) = 0
       THEN <<[combined_query |-> "", structured_mn |-> "",
               structured_en |-> "", query_embedding |-> "None"], <<>>>>
       ELSE <<[combined_query |-> "q", structured_mn |-> "q",
               structured_en |-> "q",
               query_embedding |-> IF embedding = "none"
                                   THEN "vector" ELSE "None"],
              translations \o <<[call |-> "embed", fault |-> embedding]>>>>

\* a lexical match with the fields of its experience record
EsOnlyRow(m) ==
    [id |-> m.id,
     candidate_id |-> ExperienceStore(m.id).candidate_id,
     days |-> ExperienceStore(m.id).days,
     valid |-> ExperienceStore(m.id).valid,
     match_tier |-> m.match_tier,
     elasticsearch_score |-> m.elasticsearch_score,
     tier_priority |-> m.tier_priority]

\* a row of Database.search_experiences
StoreRow(r) ==
    [id |-> r.id,
     candidate_id |-> ExperienceStore(r.id).candidate_id,
     days |-> ExperienceStore(r.id).days,
     valid |-> ExperienceStore(r.id).valid,
     norm_cos_sim |-> r.norm_cos_sim,
     fts_vector_en_rank |-> 0,
     fts_vector_mn_rank |-> 0]

SemanticTierPriority == 50000

\* _semantic_only_search, lines 87-92: the markers put on a store row
SemanticMarked(r) ==
    [id |-> r.id,
     candidate_id |-> ExperienceStore(r.id).candidate_id,
     days |-> ExperienceStore(r.id).days,
     valid |-> ExperienceStore(r.id).valid,
     norm_cos_sim |-> r.norm_cos_sim,
     fts_vector_en_rank |-> 0,
     fts_vector_mn_rank |-> 0,
     match_tier |-> "semantic",
     elasticsearch_score |-> 0,
     tier_priority |-> SemanticTierPriority]

\* _elasticsearch_only_search(query, lim): enriched_results[:limit]
ElasticsearchOnlySearch(es, lim) ==
    Take([i \in 1..Len(es) |-> EsOnlyRow(es[i])], lim)

\* _semantic_only_search(query_embedding, ..., lim)
SemanticOnlySearch(query_embedding, sem, fault, lim) ==
    IF query_embedding = "None" \/ fault # "none" THEN <<>>
    ELSE Take([i \in 1..Len(sem) |-> SemanticMarked(sem[i])], lim)

\* _hybrid_search_with_tiers(query_embedding, ..., lim): the semantic
\* retrieval is called only with a query vector; when it raises, the
\* except of line 124 returns []
HybridSearch(query_embedding, es, sem, fault, lim) ==
    IF query_embedding = "None" THEN HybridSearchWithTiers(es, <<>>, lim)
    ELSE IF fault # "none" THEN <<>>
    ELSE HybridSearchWithTiers(es, sem, lim)

InitRequest ==
    /\ pc = "request"
    /\ limit \in 1..MaxScoreLimit
    /\ exact_results = <<>>
    /\ relevant_results = <<>>
    /\ similar_results = <<>>
    /\ issued = <<>>
    /\ final_results = <<>>
    /\ es_results = <<>>
    /\ semantic_results = <<>>
    /\ combined_results = <<>>
    /\ results = <<>>
    /\ score_threshold \in ScoreThresholds
    /\ candidates = <<>>
    /\ outcome = "none"
    /\ previous = <<>>
    /\ text = <<>>
    /\ translated = <<>>
    /\ memory_cache = <<>>
    /\ search_request \in [position : RequestTexts, description : RequestTexts,
                           search_method : SearchMethods]
    /\ query = <<>>
    /\ Unstarted

\* main.py lines 204-207
RequestProcessQuery ==
    /\ pc = "request"
    /\ \E embedding \in EmbeddingOutcomes :
          LET r == ProcessQuery(search_request.position,
                                search_request.description, embedding)
          IN /\ query' = r[1]
             /\ issued' = r[2]
    /\ pc' = "processed"
    /\ UNCHANGED <<processVars,
                   limit, exact_results, relevant_results, similar_results,
                   final_results, fuseVars, scoreVars, translateVars,
                   search_request>>

\* main.py lines 209-210 and 321-323: the HTTPException(400) is raised
\* inside the try and caught by "except Exception", which raises
\* HTTPException(500)
RequestRejectEmpty ==
    /\ pc = "processed"
    /\ query.combined_query = "" /\ query.structured_en = ""
    /\ outcome' = "500"
    /\ pc' = "responded"
    /\ UNCHANGED <<processVars,
                   limit, retrieveVars, fuseVars, results, score_threshold,
                   candidates, previous, translateVars, requestVars>>

\* main.py lines 251-261 and 321-323: no query vector in the semantic and
\* the fallback branch
RequestNoEmbedding ==
    /\ pc = "processed"
    /\ ~(query.combined_query = "" /\ query.structured_en = "")
    /\ search_request.search_method \notin {"elasticsearch", "hybrid"}
    /\ query.query_embedding = "None"
    /\ outcome' = "500"
    /\ pc' = "responded"
    /\ UNCHANGED <<processVars,
                   limit, retrieveVars, fuseVars, results, score_threshold,
                   candidates, previous, translateVars, requestVars>>

\* the calls a search makes, in order
LexicalCall == <<[call |-> "lexical", fault |-> "none"]>>

SemanticCall(fault) == <<[call |-> "semantic", fault |-> fault]>>

\* main.py lines 216-261: the search of the chosen method, run with
\* limit * 2 (limit for semantic)
RequestSearch ==
    /\ pc = "processed"
    /\ ~(query.combined_query = "" /\ query.structured_en = "")
    /\ LET method == search_request.search_method
           embedded == query.query_embedding # "None"
       IN /\ method \in {"elasticsearch", "hybrid"} \/ embedded
          /\ \E es \in RequestLexicalLists, sem \in RequestSemanticLists,
                fault \in SemanticOutcomes :
                /\ method \in {"elasticsearch", "hybrid"} \/ es = <<>>
                /\ (method = "elasticsearch" \/ ~embedded)
                      => (sem = <<>> /\ fault = "none")
                /\ fault # "none" => sem = <<>>
                /\ es_results' = es
                /\ semantic_results' = sem
                /\ IF method = "elasticsearch"
                   THEN /\ results' = ElasticsearchOnlySearch(es, limit * 2)
                        /\ issued' = issued \o LexicalCall
                        /\ pc' = "searched"
                        /\ UNCHANGED outcome
                   ELSE IF method = "hybrid"
                   THEN /\ results' = HybridSearch(query.query_embedding, es,
                                                   sem, fault, limit * 2)
                        /\ issued' = issued \o LexicalCall
                              \o (IF embedded THEN SemanticCall(fault) ELSE <<>>)
                        /\ pc' = "searched"
                        /\ UNCHANGED outcome
                   ELSE IF method = "semantic"
                   THEN /\ results' = SemanticOnlySearch(query.query_embedding,
                                                         sem, fault, limit)
                        /\ issued' = issued \o SemanticCall(fault)
                        /\ pc' = "searched"
                        /\ UNCHANGED outcome
                   ELSE /\ issued' = issued \o SemanticCall(fault)
                        /\ IF fault # "none"
                           THEN /\ results' = <<>>
                                /\ outcome' = "500"
                                /\ pc' = "responded"
                           ELSE /\ results' = [i \in 1..Len(sem) |-> StoreRow(sem[i])]
                                /\ pc' = "searched"
                                /\ UNCHANGED outcome
    /\ UNCHANGED <<processVars,
                   limit, exact_results, relevant_results, similar_results,
                   final_results, combined_results, score_threshold,
                   candidates, previous, translateVars, requestVars>>

\* main.py lines 263-319: score, rank and answer
RequestScore ==
    /\ pc = "searched"
    /\ IF ScoreAndRankRaises(results, score_threshold)
       THEN /\ outcome' = "500"
            /\ candidates' = <<>>
       ELSE /\ outcome' = "200"
            /\ candidates' = ScoreAndRankCandidates(results, score_threshold, limit)
    /\ pc' = "responded"
    /\ UNCHANGED <<processVars,
                   limit, retrieveVars, fuseVars, results, score_threshold,
                   previous, translateVars, requestVars>>

NextRequest ==
    \/ RequestProcessQuery
    \/ RequestRejectEmpty
    \/ RequestNoEmbedding
    \/ RequestSearch
    \/ RequestScore

SpecRequest == InitRequest /\ [][NextRequest]_vars

\* the calls of one kind the request has made
CallsOf(kind) == {i \in 1..Len(issued) : issued[i].call = kind}

FailedCallsOf(kind) == {i \in CallsOf(kind) : issued[i].fault # "none"}

BothTextsEmpty ==
    /\ Len(Strip(search_request.position)) = 0
    /\ Len(Strip(search_request.description)) = 0

(***************************************************************************)
(* C15.  Hybrid mode, the semantic retrieval raises or times out while the *)
(* lexical retrieval returned matches: the failure is absorbed, the search *)
(* returns the ranking built from the lexical matches (semantic            *)
(* contribution empty); the request does not fail and the result is not    *)
(* empty.                                                                  *)
(***************************************************************************)
SemanticFailureAbsorbed ==
    (/\ pc = "responded"
     /\ search_request.search_method = "hybrid"
     /\ FailedCallsOf("semantic") # {}
     /\ es_results # <<>>)
        => /\ outcome = "200"
           /\ results = HybridSearchWithTiers(es_results, <<>>, limit * 2)
           /\ results # <<>>

(***************************************************************************)
(* C18.  When the position text and the description text are both empty    *)
(* or whitespace only, the request ends with the EmptyQuery caller error   *)
(* (status 400), distinguishable from an internal failure (status 500),    *)
(* and no translation, embedding, lexical or semantic call is made.        *)
(***************************************************************************)
EmptyQueryRejected ==
    (pc = "responded" /\ BothTextsEmpty)
        => outcome = "400" /\ issued = <<>>

(***************************************************************************)
(* C19.  When embedding generation fails or the provider returns no        *)
(* vector, the query vector is None, the search makes no semantic          *)
(* retrieval call, and the request does not fail because of it, for every  *)
(* search method.                                                          *)
(***************************************************************************)
EmbeddingFailureSkipsSemantic ==
    (pc = "responded" /\ FailedCallsOf("embed") # {})
        => /\ query.query_embedding = "None"
           /\ CallsOf("semantic") = {}
           /\ outcome = "200"

(***************************************************************************)
(* The two language heuristics on one text: the retriever asks its own     *)
(* _is_likely_english (search_with_priority_layers, line 109) and then     *)
(* hands the text to the translator, which asks Translator's (line 122).   *)
(* "mn" is a letter listed in mongolian_chars, "MN" its capital, "oe" a    *)
(* non-ASCII letter that is not listed.                                    *)
(***************************************************************************)
MaxAsciiRun == 5      \* ASCII characters in a text
MaxOtherRun == 2      \* non-ASCII characters in a text

MongolianChars == {"mn"}

Run(c, n) == [i \in 1..n |-> c]

HeuristicTexts ==
    {Run(a, n) \o Run(o, k) :
        a \in {"a", "A"}, n \in 0..MaxAsciiRun,
        o \in {"mn", "MN", "oe"}, k \in 0..MaxOtherRun}

\* ElasticsearchService._is_likely_english
ServiceIsLikelyEnglish(t) ==
    IF Len(t) = 0 THEN TRUE
    ELSE LET has_mongolian == \E i \in 1..Len(t) : Lower(t)[i] \in MongolianChars
             ascii == Cardinality({i \in 1..Len(t) : t[i] \in AsciiChars})
         IN ~has_mongolian /\ 10 * ascii > 8 * Len(t)

InitLanguage ==
    /\ pc = "detect"
    /\ limit = 0
    /\ exact_results = <<>>
    /\ relevant_results = <<>>
    /\ similar_results = <<>>
    /\ issued = <<>>
    /\ final_results = <<>>
    /\ es_results = <<>>
    /\ semantic_results = <<>>
    /\ combined_results = <<>>
    /\ results = <<>>
    /\ score_threshold = 0
    /\ candidates = <<>>
    /\ outcome = "none"
    /\ previous = <<>>
    /\ text \in HeuristicTexts
    /\ translated = <<>>
    /\ memory_cache = <<>>
    /\ search_request = <<>>
    /\ query = <<>>
    /\ Unstarted

\* both heuristics applied to the text
DetectLanguage ==
    /\ pc = "detect"
    /\ outcome' = [retriever |-> ServiceIsLikelyEnglish(text),
                   normalizer |-> TranslatorIsLikelyEnglish(text)]
    /\ pc' = "detected"
    /\ UNCHANGED <<processVars,
                   limit, retrieveVars, fuseVars, results, score_threshold,
                   candidates, previous, translateVars, requestVars>>

NextLanguage == DetectLanguage

SpecLanguage == InitLanguage /\ [][NextLanguage]_vars

(***************************************************************************)
(* C21.  Translator._is_likely_english and                                 *)
(* ElasticsearchService._is_likely_english return the same verdict for     *)
(* every text, including the empty text and a text that mixes listed       *)
(* letters with more than 80% ASCII characters.                            *)
(***************************************************************************)
HeuristicsAgree ==
    pc = "detected" => outcome.retriever = outcome.normalizer

(***************************************************************************)
(* _hybrid_search_with_tiers step by step: the statements of lines 107-116 *)
(* in program order, every retrieval call as a start and an end event in   *)
(* the call log.                                                           *)
(***************************************************************************)
Started(kind) ==
    \E i \in 1..Len(issued) : issued[i].call = kind /\ issued[i].event = "start"

Ended(kind) ==
    \E i \in 1..Len(issued) : issued[i].call = kind /\ issued[i].event = "end"

InitHybridSteps ==
    /\ pc = "hybrid"
    /\ limit \in 1..MaxScoreLimit
    /\ exact_results = <<>>
    /\ relevant_results = <<>>
    /\ similar_results = <<>>
    /\ issued = <<>>
    /\ final_results = <<>>
    /\ es_results = <<>>
    /\ semantic_results = <<>>
    /\ combined_results = <<>>
    /\ results = <<>>
    /\ score_threshold = 0
    /\ candidates = <<>>
    /\ outcome = "none"
    /\ previous = <<>>
    /\ text = <<>>
    /\ translated = <<>>
    /\ memory_cache = <<>>
    /\ search_request = <<>>
    /\ query \in [query_embedding : {"vector", "None"}]
    /\ Unstarted

\* line 107: the call of search_with_priority_layers is entered
LexicalStart ==
    /\ pc = "hybrid"
    /\ issued' = Append(issued, [call |-> "lexical", event |-> "start",
                                 fault |-> "none"])
    /\ pc' = "lexical_running"
    /\ UNCHANGED <<processVars,
                   limit, exact_results, relevant_results, similar_results,
                   final_results, fuseVars, scoreVars, translateVars,
                   requestVars>>

\* line 107: it returns (it never raises)
LexicalEnd ==
    /\ pc = "lexical_running"
    /\ \E es \in RequestLexicalLists : es_results' = es
    /\ issued' = Append(issued, [call |-> "lexical", event |-> "end",
                                 fault |-> "none"])
    /\ pc' = "lexical_done"
    /\ UNCHANGED <<processVars,
                   limit, exact_results, relevant_results, similar_results,
                   final_results, semantic_results, combined_results,
                   scoreVars, translateVars, requestVars>>

\* lines 110-112: with a query vector search_experiences is entered
SemanticStart ==
    /\ pc = "lexical_done"
    /\ IF query.query_embedding # "None"
       THEN /\ issued' = Append(issued, [call |-> "semantic", event |-> "start",
                                         fault |-> "none"])
            /\ pc' = "semantic_running"
       ELSE /\ UNCHANGED issued
            /\ pc' = "semantic_done"
    /\ UNCHANGED <<processVars,
                   limit, exact_results, relevant_results, similar_results,
                   final_results, fuseVars, scoreVars, translateVars,
                   requestVars>>

\* line 112: it returns rows, or raises into the except of line 124
SemanticEnd ==
    /\ pc = "semantic_running"
    /\ \E fault \in SemanticOutcomes :
          /\ issued' = Append(issued, [call |-> "semantic", event |-> "end",
                                       fault |-> fault])
          /\ IF fault = "none"
             THEN /\ \E sem \in RequestSemanticLists : semantic_results' = sem
                  /\ pc' = "semantic_done"
                  /\ UNCHANGED <<results, outcome>>
             ELSE /\ results' = <<>>
                  /\ outcome' = "returned"
                  /\ pc' = "hybrid_done"
                  /\ UNCHANGED semantic_results
    /\ UNCHANGED <<processVars,
                   limit, exact_results, relevant_results, similar_results,
                   final_results, es_results, combined_results,
                   score_threshold, candidates, previous, translateVars,
                   requestVars>>

\* lines 115-121: fusion, enrichment, enriched_results[:limit]
FuseStep ==
    /\ pc = "semantic_done"
    /\ combined_results' = CombineResultsWithTierWeights(es_results,
                                                         semantic_results)
    /\ results' = HybridSearchWithTiers(es_results, semantic_results, limit)
    /\ outcome' = "returned"
    /\ pc' = "hybrid_done"
    /\ UNCHANGED <<processVars,
                   limit, retrieveVars, es_results, semantic_results,
                   score_threshold, candidates, previous, translateVars,
                   requestVars>>

NextHybridSteps ==
    LexicalStart \/ LexicalEnd \/ SemanticStart \/ SemanticEnd \/ FuseStep

SpecHybridSteps == InitHybridSteps /\ [][NextHybridSteps]_vars

(***************************************************************************)
(* C22.  In a hybrid search the lexical and the semantic retrieval are     *)
(* issued concurrently: when either of them finishes the other one has     *)
(* already been started; and fusion starts only after both have completed  *)
(* or timed out.                                                           *)
(***************************************************************************)
ConcurrentRetrieval ==
    (pc \in {"lexical_running", "lexical_done", "semantic_running",
             "semantic_done", "hybrid_done"}
       /\ query.query_embedding # "None")
        => /\ Ended("lexical") => Started("semantic")
           /\ Ended("semantic") => Started("lexical")
           /\ combined_results # <<>> => (Ended("lexical") /\ Ended("semantic"))

(***************************************************************************)
(* C23.  Every match handed to the candidate scorer by the lexical-only,   *)
(* the semantic-only and the hybrid search carries a tier that is one of   *)
(* exact, relevant, similar, semantic_only, so that the scorer never ranks *)
(* a match with the unknown fallback priority.                             *)
(***************************************************************************)
EnumeratedTiers == {"exact", "relevant", "similar", "semantic_only"}

HandedTiersEnumerated ==
    (pc = "searched"
       /\ search_request.search_method \in {"elasticsearch", "semantic", "hybrid"})
        => \A i \in 1..Len(results) :
              /\ "match_tier" \in DOMAIN results[i]
              /\ results[i].match_tier \in EnumeratedTiers
              /\ ScorerPriority(GetTier(results[i], "unknown")) # UnknownPriority

PassRank(pass) ==
    IF pass = "exact" THEN 1 ELSE IF pass = "relevant" THEN 2 ELSE 3

PassStateMachine ==
    /\ issued # <<>> => issued[1].pass = "exact"
    /\ \A i, j \in 1..Len(issued) :
          i < j => PassRank(issued[i].pass) < PassRank(issued[j].pass)
    /\ \A i \in 1..Len(issued) :
          /\ issued[i].size > 0
          /\ issued[i].pass = "relevant"
                => /\ Len(exact_results) < limit
                   /\ issued[i].size = limit - Len(exact_results)
          /\ issued[i].pass = "similar"
                => /\ Len(exact_results) + Len(relevant_results) < limit
                   /\ issued[i].size
                         = limit - Len(exact_results) - Len(relevant_results)
    /\ (final_results # <<>> \/ outcome = "returned") => pc = "done"
    /\ pc \in {"start", "exact_done"} => "similar" \notin IssuedPasses
    /\ pc = "start" => issued = <<>>

\* limit 3: one exact and one relevant match, so the relevant pass asked
\* for 2 and the similar pass for 1, and the merged list was emitted
PassStateMachineWitness ==
    /\ pc = "done"
    /\ Len(issued) = 3
    /\ issued[2].size = 2
    /\ issued[3].size = 1
    /\ Len(final_results) = 3

(***************************************************************************)
(* Query building: QueryProcessor._create_optimized_search_query and       *)
(* _extract_key_terms.  A description is the set of vocabulary words it    *)
(* contains and the sequence of its quoted substrings; a query is the      *)
(* sequence of the words joined by " ".                                    *)
(***************************************************************************)
MaxPatterns == 3       \* entries of important_patterns that are modelled
MaxQuoted == 1         \* quoted substrings in a description

\* the head of important_patterns, in the order of the source
ImportantPatterns == <<"python", "java", "javascript", "sql", "machine learning">>

Patterns == Take(ImportantPatterns, MaxPatterns)

\* what a description can put in quotes: a vocabulary word or another one
QuotedWords == {"python", "etl"}

Terms == Range(Patterns) \cup QuotedWords

\* pattern in description_lower, for a description containing the word w
Contains(w, pattern) == w = pattern \/ (w = "javascript" /\ pattern = "java")

Descriptions ==
    [words : SUBSET Range(Patterns),
     quoted : UNION {[1..n -> QuotedWords] : n \in 0..MaxQuoted}]

Positions == {"", "engineer"}

\* the orders in which one interpreter process can iterate a set of str:
\* str hashes are salted per process
HashSeeds ==
    {h \in [1..Cardinality(Terms) -> Terms] :
        \A i, j \in 1..Cardinality(Terms) : i # j => h[i] # h[j]}

\* list(set(terms)) in a process with iteration order seed
ListOfSet(terms, seed) == SelectIdx(seed, {i \in 1..Len(seed) : seed[i] \in terms})

\* _extract_key_terms(description), lines 141-182
ExtractKeyTerms(description, seed) ==
    LET found_terms ==
            SelectIdx(Patterns,
                      {i \in 1..Len(Patterns) :
                          \E w \in description.words \cup Range(description.quoted) :
                              Contains(w, Patterns[i])})
        quoted_terms == description.quoted
        all_terms == ListOfSet(Range(found_terms \o quoted_terms), seed)
    IN Take(all_terms, 5)

\* _create_optimized_search_query(position_en, description_en)
CreateOptimizedSearchQuery(position, description, seed) ==
    (IF position # "" THEN <<position>> ELSE <<>>)
        \o Take(ExtractKeyTerms(description, seed), 3)

MaxBuilds == 2         \* how often the query of one request is built

InitQuery ==
    /\ pc = "build"
    /\ limit = 0
    /\ exact_results = <<>>
    /\ relevant_results = <<>>
    /\ similar_results = <<>>
    /\ issued = <<>>
    /\ final_results = <<>>
    /\ es_results = <<>>
    /\ semantic_results = <<>>
    /\ combined_results = <<>>
    /\ results = <<>>
    /\ score_threshold = 0
    /\ candidates = <<>>
    /\ outcome = "none"
    /\ previous = <<>>
    /\ text = <<>>
    /\ translated = <<>>
    /\ memory_cache = <<>>
    /\ search_request \in [position : Positions, description : Descriptions]
    /\ query = <<>>
    /\ hash_seed \in HashSeeds
    /\ pool = <<>>
    /\ conn = <<>>

\* process_query line 68: the canonical query of the request is built
BuildQuery ==
    /\ pc \in {"build", "built", "restarted"}
    /\ Len(issued) < MaxBuilds
    /\ query' = CreateOptimizedSearchQuery(search_request.position,
                                           search_request.description,
                                           hash_seed)
    /\ issued' = Append(issued, [call |-> "build", query |-> query'])
    /\ pc' = "built"
    /\ UNCHANGED <<limit, exact_results, relevant_results, similar_results,
                   final_results, fuseVars, scoreVars, translateVars,
                   search_request, processVars>>

\* the service is started again (or another worker process takes the
\* request): the new interpreter salts str hashes anew
RestartProcess ==
    /\ pc = "built"
    /\ \E seed \in HashSeeds : hash_seed' = seed
    /\ pc' = "restarted"
    /\ UNCHANGED <<limit, retrieveVars, fuseVars, scoreVars, translateVars,
                   requestVars, pool, conn>>

NextQuery == BuildQuery \/ RestartProcess

SpecQuery == InitQuery /\ [][NextQuery]_vars

(***************************************************************************)
(* C26.  The canonical query has at most 3 key terms of the description,   *)
(* none of them twice, and building it is stable: every build of the query *)
(* for the same position and description gives the same query, also when   *)
(* the description matches more than 3 vocabulary or quoted terms.         *)
(***************************************************************************)
KeyTermsOf(q) ==
    IF search_request.position # "" THEN SubSeq(q, 2, Len(q)) ELSE q

StableKeyTerms ==
    \A i, j \in 1..Len(issued) :
        /\ Len(KeyTermsOf(issued[i].query)) <= 3
        /\ \A a, b \in 1..Len(KeyTermsOf(issued[i].query)) :
              a # b => KeyTermsOf(issued[i].query)[a] # KeyTermsOf(issued[i].query)[b]
        /\ issued[i].query = issued[j].query

(***************************************************************************)
(* C27.  In the scorer's output every candidate id appears at most once,   *)
(* every experience listed under a candidate comes from an input row with  *)
(* that candidate id, and no input experience is listed under two          *)
(* candidates.                                                             *)
(***************************************************************************)
CandidateGrouping ==
    Scored =>
        /\ \A i, j \in 1..Len(candidates) :
              i # j => candidates[i].candidate_id # candidates[j].candidate_id
        /\ \A i \in 1..Len(candidates) :
              \A k \in 1..Len(candidates[i].experiences) :
                 /\ candidates[i].experiences[k].src \in Range(results)
                 /\ candidates[i].experiences[k].src.candidate_id
                       = candidates[i].candidate_id
        /\ \A i, j \in 1..Len(candidates) :
              i # j => Range(SrcOf(candidates[i].experiences))
                          \cap Range(SrcOf(candidates[j].experiences)) = {}

\* two candidates are returned, each with its own experience
CandidateGroupingWitness ==
    /\ Scored
    /\ Len(candidates) = 2
    /\ Len(results) = 2
    /\ \A i \in 1..2 : Len(candidates[i].experiences) = 1

(***************************************************************************)
(* C28.  In tier-based scoring the finalScore of a returned candidate does *)
(* not depend on scoreThreshold: a candidate returned by two calls on the  *)
(* same rows with different thresholds has the same finalScore in both,    *)
(* also when the higher threshold dropped some of its experiences from the *)
(* experience list.                                                        *)
(***************************************************************************)
FinalScoreThresholdFree ==
    [][(pc = "scored" /\ pc' = "rescored" /\ HasTiers(results))
          => \A i \in 1..Len(candidates), j \in 1..Len(candidates') :
                candidates[i].candidate_id = candidates'[j].candidate_id
                   => candidates[i].final_score = candidates'[j].final_score]_vars

\* one candidate with two tier-tagged rows was returned by the first call
\* and is returned by the second one, under a higher threshold, with one of
\* its two experiences dropped
FinalScoreThresholdFreeWitness ==
    /\ pc = "rescored"
    /\ outcome = "returned"
    /\ HasTiers(results)
    /\ Len(results) = 2
    /\ results[1].candidate_id = results[2].candidate_id
    /\ previous[1] < score_threshold
    /\ previous[2] = 1
    /\ Len(candidates) = 1
    /\ Len(candidates[1].experiences) = 1

(***************************************************************************)
(* C29.  Once a call of translate_mongolian_to_english has obtained a      *)
(* valid translation of a text t from the service and cached it, the next  *)
(* call with the same t, when the entry has not expired, returns that      *)
(* translation and does not call the service again; this for every t,      *)
(* texts with backslashes or repeated whitespace included.                 *)
(***************************************************************************)
ObtainedAndCached ==
    /\ issued # <<>>
    /\ issued[1].fault = "none"
    /\ translated = Strip(issued[1].response)
    /\ \E h \in DOMAIN memory_cache : memory_cache[h] = translated

CachedTranslationReused ==
    [][(ObtainedAndCached /\ text' = text
          /\ ~(issued' # <<>> /\ issued'[1].expired))
          => (issued' = <<>> /\ translated' = translated)]_vars

(***************************************************************************)
(* Database.get_connection, lines 49-75, statement by statement.  The pool *)
(* keeps, per connection, whether it is checked out, whether the server    *)
(* side has closed it, how often getconn handed it out and how often       *)
(* putconn was called with it.  conn = 0 is None.                          *)
(***************************************************************************)
MaxConns == 2          \* connections of the pool
MaxTakes == 2          \* how often one connection is handed out

Conns == 1..MaxConns

PoolStates ==
    [Conns -> [state : {"idle"}, closed : BOOLEAN, taken : {0}, given : {0}]]

\* self.pool.getconn() handing out connection c
GetConn(p, c) ==
    [p EXCEPT ![c].state = "out", ![c].taken = @ + 1]

\* self.pool.putconn(c): the connection is idle in the pool again
PutConn(p, c) ==
    [p EXCEPT ![c].state = "idle", ![c].given = @ + 1]

\* self.pool.putconn(c, close=True): the connection is closed and dropped;
\* its slot is free for a new connection
PutConnClose(p, c) ==
    [p EXCEPT ![c].state = "idle", ![c].closed = FALSE, ![c].given = @ + 1]

Available(p) == {c \in Conns : p[c].state = "idle" /\ p[c].taken < MaxTakes}

InitPool ==
    /\ pc = "getconn"
    /\ limit = 0
    /\ exact_results = <<>>
    /\ relevant_results = <<>>
    /\ similar_results = <<>>
    /\ issued = <<>>
    /\ final_results = <<>>
    /\ es_results = <<>>
    /\ semantic_results = <<>>
    /\ combined_results = <<>>
    /\ results = <<>>
    /\ score_threshold = 0
    /\ candidates = <<>>
    /\ outcome = "none"
    /\ previous = <<>>
    /\ text = <<>>
    /\ translated = <<>>
    /\ memory_cache = <<>>
    /\ search_request = <<>>
    /\ query = <<>>
    /\ hash_seed = <<>>
    /\ pool \in PoolStates
    /\ conn = 0

\* line 53: conn = self.pool.getconn(); it raises when no connection can
\* be had
PoolGetConn ==
    /\ pc = "getconn"
    /\ \/ /\ UNCHANGED <<pool, conn>>
          /\ pc' = "except"
       \/ \E c \in Available(pool) :
             /\ pool' = GetConn(pool, c)
             /\ conn' = c
             /\ pc' = "check_closed"
    /\ UNCHANGED <<limit, retrieveVars, fuseVars, scoreVars, translateVars,
                   requestVars, hash_seed>>

\* lines 54-56: if conn.closed: self.pool.putconn(conn, close=True)
PoolCheckClosed ==
    /\ pc = "check_closed"
    /\ IF pool[conn].closed
       THEN /\ pool' = PutConnClose(pool, conn)
            /\ pc' = "getconn_again"
       ELSE /\ UNCHANGED pool
            /\ pc' = "register"
    /\ UNCHANGED <<limit, retrieveVars, fuseVars, scoreVars, translateVars,
                   requestVars, hash_seed, conn>>

\* line 57: conn = self.pool.getconn(); when it raises, conn still names
\* the connection that line 56 gave back
PoolGetConnAgain ==
    /\ pc = "getconn_again"
    /\ \/ /\ UNCHANGED <<pool, conn>>
          /\ pc' = "except"
       \/ \E c \in Available(pool) :
             /\ pool' = GetConn(pool, c)
             /\ conn' = c
             /\ pc' = "register"
    /\ UNCHANGED <<limit, retrieveVars, fuseVars, scoreVars, translateVars,
                   requestVars, hash_seed>>

\* lines 59-60: register_vector(conn); yield conn -- either may raise
PoolBody ==
    /\ pc = "register"
    /\ \E raises \in BOOLEAN :
          /\ pool[conn].closed => raises
          /\ IF raises
             THEN /\ pc' = "except"
                  /\ UNCHANGED outcome
             ELSE /\ pc' = "finally"
                  /\ outcome' = "returned"
    /\ UNCHANGED <<limit, retrieveVars, fuseVars, results, score_threshold,
                   candidates, previous, translateVars, requestVars,
                   processVars>>

\* lines 62-66: if conn: conn.rollback(); raise
PoolExcept ==
    /\ pc = "except"
    /\ outcome' = "raised"
    /\ pc' = "finally"
    /\ UNCHANGED <<limit, retrieveVars, fuseVars, results, score_threshold,
                   candidates, previous, translateVars, requestVars,
                   processVars>>

\* lines 67-74: if conn: commit and putconn(conn); when the commit raises
\* (it does on a closed connection, and on one already given back with
\* close=True), putconn(conn, close=True)
PoolFinally ==
    /\ pc = "finally"
    /\ IF conn = 0
       THEN UNCHANGED pool
       ELSE \E commit_raises \in BOOLEAN :
               /\ (pool[conn].closed \/ pool[conn].state # "out")
                     => commit_raises
               /\ pool' = IF commit_raises THEN PutConnClose(pool, conn)
                          ELSE PutConn(pool, conn)
    /\ pc' = "exit"
    /\ UNCHANGED <<limit, retrieveVars, fuseVars, scoreVars, translateVars,
                   requestVars, hash_seed, conn>>

\* the next with-block of the process; meanwhile the server may have closed
\* idle connections
PoolNextWith ==
    /\ pc = "exit"
    /\ \E dropped \in SUBSET Conns :
          pool' = [c \in Conns |->
                     IF c \in dropped THEN [pool[c] EXCEPT !.closed = TRUE]
                     ELSE pool[c]]
    /\ conn' = 0
    /\ outcome' = "none"
    /\ pc' = "getconn"
    /\ UNCHANGED <<limit, retrieveVars, fuseVars, results, score_threshold,
                   candidates, previous, translateVars, requestVars,
                   hash_seed>>

NextPool ==
    \/ PoolGetConn
    \/ PoolCheckClosed
    \/ PoolGetConnAgain
    \/ PoolBody
    \/ PoolExcept
    \/ PoolFinally
    \/ PoolNextWith

SpecPool == InitPool /\ [][NextPool]_vars

(***************************************************************************)
(* C30.  Every connection get_connection takes from the pool is given back *)
(* exactly once, whether the with-block completes, raises, or the commit   *)
(* fails: when get_connection is left no connection is checked out, and no *)
(* connection has been given back more often than it was taken.            *)
(***************************************************************************)
ConnectionsBalanced ==
    /\ \A c \in Conns : pool[c].given <= pool[c].taken
    /\ pc = "exit" =>
          \A c \in Conns : pool[c].state = "idle" /\ pool[c].given = pool[c].taken

====
